---- MODULE Spec2Model ----
(***************************************************************************)
(* T/V register detection for Russian sentences: the token-based detector  *)
(* (src/code/tv_detector.py), the annotation-based detector                *)
(* (src/code/conll_tv_detector.py), the labelling of a source file         *)
(* (TVDetector.mark_tv_sentences) and the extraction of a parallel         *)
(* sub-corpus (create_tv_subcorpus in src/code/helper.py).                 *)
(*                                                                         *)
(* Text is modelled character by character: a string is a sequence of      *)
(* one-character atoms.  Cyrillic letters are written in an ASCII          *)
(* transliteration, one atom per letter:                                   *)
(*   t=te  y=yery  e=ie  b=be  ya=ya  o=o  yu=yu  j=short-i  v=ve  g=ghe   *)
(*   m=em  u=u  i=i  yo=io  h=ha  a=a  s=es  sh=sha  l=el  zh=zhe          *)
(* and the upper-case letter is the same atom in capitals.  Latin letters  *)
(* carry the suffix _lat (e_lat occurs in one lexicon entry).              *)
(*                                                                         *)
(* A CoNLL-U text is modelled row by row: a row is a token row (with its   *)
(* upos, lemma and feats columns), a blank row (the sentence separator) or *)
(* a malformed row (one the conllu parser rejects).                        *)
(*                                                                         *)
(* The file system is the environment: every call finds the files it names *)
(* with contents drawn from a bounded set, and fs is the file system as    *)
(* the call leaves it.  The token-based detector is given raw text files   *)
(* and the annotation-based detector CoNLL-U files.                        *)
(***************************************************************************)
EXTENDS Integers, Sequences, FiniteSets, TLC

VARIABLES
    russian_T_words,   \* SimpleTVDetector.russian_T_words
    russian_V_words,   \* SimpleTVDetector.russian_V_words
    fs,                \* file system: path -> file
    call,              \* the last operation called and its arguments
    ret,               \* what the last operation returned or raised
    stdout,            \* what the last operation printed
    classified         \* sentences the last operation classified

vars == <<russian_T_words, russian_V_words, fs, call, ret, stdout, classified>>

----------------------------------------------------------------------------
(* Bounds of the model *)

MaxPieces == 3      \* words and whitespace runs in a generated sentence
MaxBatch == 2       \* sentences in an in-memory batch
MaxFileLines == 2   \* lines in a text file
MaxRows == 3        \* rows in a CoNLL-U file
MaxSentTokens == 2  \* tokens in a directly classified annotated sentence

----------------------------------------------------------------------------
(* Python values *)

None == [some |-> FALSE]
Some(v) == [some |-> TRUE, val |-> v]

\* what a call returns: nothing, one label, a list of labels, one flag, or a path
ReturnNone == [kind |-> "return"]
ReturnLabel(label) == [kind |-> "return", label |-> label]
ReturnLabels(t_v_list) == [kind |-> "return", labels |-> t_v_list]
ReturnFlag(flag) == [kind |-> "return", flag |-> flag]
ReturnPath(filename) == [kind |-> "return", path |-> filename]
Raise(e) == [kind |-> "raise", error |-> e]

Range(s) == {s[i] : i \in 1..Len(s)}

RECURSIVE SeqsUpTo(_, _)
SeqsUpTo(S, n) ==
    IF n = 0 THEN {<<>>}
    ELSE LET shorter == SeqsUpTo(S, n - 1)
         IN shorter \cup {Append(q, x) : q \in shorter, x \in S}

RECURSIVE Flatten(_)
Flatten(ss) == IF ss = <<>> THEN <<>> ELSE Head(ss) \o Flatten(Tail(ss))

Min(a, b) == IF a <= b THEN a ELSE b

----------------------------------------------------------------------------
(* Characters and strings *)

Whitespace == {" ", "\t", "\n"}

UpperTable ==
    [c \in {"t", "y", "e", "b", "ya", "o", "yu", "j", "v", "g", "m", "u", "i",
            "yo", "h", "a", "s", "sh", "l", "zh", "e_lat"} |->
        CASE c = "t" -> "T" [] c = "y" -> "Y" [] c = "e" -> "E"
          [] c = "b" -> "B" [] c = "ya" -> "YA" [] c = "o" -> "O"
          [] c = "yu" -> "YU" [] c = "j" -> "J" [] c = "v" -> "V"
          [] c = "g" -> "G" [] c = "m" -> "M" [] c = "u" -> "U"
          [] c = "i" -> "I" [] c = "yo" -> "YO" [] c = "h" -> "H"
          [] c = "a" -> "A" [] c = "s" -> "S" [] c = "sh" -> "SH"
          [] c = "l" -> "L" [] c = "zh" -> "ZH" [] c = "e_lat" -> "E_LAT"]

\* str.upper() of one character
upper(c) == IF c \in DOMAIN UpperTable THEN UpperTable[c] ELSE c

RECURSIVE lstrip(_)
lstrip(s) ==
    IF s = <<>> THEN <<>>
    ELSE IF Head(s) \in Whitespace THEN lstrip(Tail(s)) ELSE s

RECURSIVE rstrip(_)
rstrip(s) ==
    IF s = <<>> THEN <<>>
    ELSE IF s[Len(s)] \in Whitespace THEN rstrip(SubSeq(s, 1, Len(s) - 1)) ELSE s

\* str.strip()
strip(s) == rstrip(lstrip(s))

RECURSIVE split_from(_, _, _)
split_from(s, cur, out) ==
    IF s = <<>> THEN (IF cur = <<>> THEN out ELSE Append(out, cur))
    ELSE IF Head(s) \in Whitespace
         THEN split_from(Tail(s), <<>>, IF cur = <<>> THEN out ELSE Append(out, cur))
         ELSE split_from(Tail(s), Append(cur, Head(s)), out)

\* str.split(): the maximal runs of non-whitespace characters, in order
split(s) == split_from(s, <<>>, <<>>)

RECURSIVE splitlines_from(_, _, _)
splitlines_from(s, cur, out) ==
    IF s = <<>> THEN (IF cur = <<>> THEN out ELSE Append(out, cur))
    ELSE IF Head(s) = "\n"
         THEN splitlines_from(Tail(s), <<>>, Append(out, cur))
         ELSE splitlines_from(Tail(s), Append(cur, Head(s)), out)

\* str.splitlines(): the lines without their line ends
splitlines(s) == splitlines_from(s, <<>>, <<>>)

\* the lines of s from position `from` on, each up to and with its line end,
\* appended to out (one step per line, so that long lines stay cheap)
RECURSIVE readlines_from(_, _, _)
readlines_from(s, from, out) ==
    IF from > Len(s) THEN out
    ELSE LET ends == {i \in from..Len(s) : s[i] = "\n"}
             to == IF ends = {} THEN Len(s)
                   ELSE CHOOSE i \in ends : \A j \in ends : i <= j
         IN readlines_from(s, to + 1, Append(out, SubSeq(s, from, to)))

\* iterating an open text file: the lines with their line ends
file_lines(s) == readlines_from(s, 1, <<>>)

----------------------------------------------------------------------------
(* The lexicon of the token-based detector *)

russian_T_tokens ==
    { <<"t", "y">>, <<"t", "e", "b", "ya">>, <<"t", "e", "b", "e">>,
      <<"t", "o", "b", "o", "yu">>, <<"t", "o", "b", "o", "j">>,
      <<"t", "v", "o", "j">>, <<"t", "v", "o", "e", "g", "o">>,
      <<"t", "v", "o", "e", "m", "u">>, <<"t", "v", "o", "i", "m">>,
      <<"t", "v", "o", "yo", "m">>, <<"t", "v", "o", "e_lat", "m">>,
      <<"t", "v", "o", "yo">>, <<"t", "v", "o", "e">>,
      <<"t", "v", "o", "ya">>, <<"t", "v", "o", "e", "j">>,
      <<"t", "v", "o", "yu">>, <<"t", "v", "o", "e", "yu">>,
      <<"t", "v", "o", "e", "j">>,
      <<"t", "v", "o", "i">>, <<"t", "v", "o", "i", "h">>,
      <<"t", "v", "o", "i", "m">>, <<"t", "v", "o", "i", "m", "i">> }

russian_V_tokens ==
    { <<"v", "y">>, <<"v", "a", "s">>, <<"v", "a", "m">>, <<"v", "a", "m", "i">>,
      <<"v", "a", "sh">>, <<"v", "a", "sh", "e", "g", "o">>,
      <<"v", "a", "sh", "e", "m", "u">>, <<"v", "a", "sh", "e", "g", "o">>,
      <<"v", "a", "sh", "i", "m">>, <<"v", "a", "sh", "e", "m">>,
      <<"v", "a", "sh", "e">>,
      <<"v", "a", "sh", "a">>, <<"v", "a", "sh", "e", "j">>,
      <<"v", "a", "sh", "u">>, <<"v", "a", "sh", "e", "yu">>,
      <<"v", "a", "sh", "i">>, <<"v", "a", "sh", "i", "h">>,
      <<"v", "a", "sh", "i", "m", "i">>, <<"v", "a", "sh", "i", "h">> }

RECURSIVE upper_all(_)
upper_all(token) ==
    IF token = <<>> THEN <<>> ELSE <<upper(Head(token))>> \o upper_all(Tail(token))

\* variant: the whole entry upper-cased, not its first letter
update_uppercased(tokens) == tokens \cup {upper_all(token) : token \in tokens}

\* tokens.update({token[0].upper() + token[1:] for token in tokens})
update_capitalized(tokens) ==
    tokens \cup {<<upper(Head(token))>> \o Tail(token) : token \in tokens}

\* variant: the V set is augmented from the T entries
get_russian_T_V_words_update_from_T ==
    <<update_capitalized(russian_T_tokens),
      russian_V_tokens \cup
        {<<upper(Head(token))>> \o Tail(token) : token \in russian_T_tokens}>>

get_russian_T_V_words ==
    <<update_capitalized(russian_T_tokens), update_capitalized(russian_V_tokens)>>

----------------------------------------------------------------------------
(* Token-based detection of one sentence *)

\* variant: the two hit flags returned as the label, without the exclusion
token_based_hits_as_label(line) ==
    LET tokens == Range(split(strip(line)))
    IN <<(russian_T_words \cap tokens) # {}, (russian_V_words \cap tokens) # {}>>

token_based_t_v_labels_detection(line) ==
    LET tokens == Range(split(strip(line)))
        t_token_met == (russian_T_words \cap tokens) # {}
        v_token_met == (russian_V_words \cap tokens) # {}
        t_sentence_found == t_token_met /\ ~v_token_met
        v_sentence_found == v_token_met /\ ~t_token_met
    IN <<t_sentence_found, v_sentence_found>>

----------------------------------------------------------------------------
(* Annotation-based detection of one sentence *)

\* feats.get(name) == value; the feats mapping is the set of its (name, value) items
feats_get_is(feats, name, value) == <<name, value>> \in feats

\* variant: a plural verb of any person is V-specific
check_token_for_v_any_person(parsed_token) ==
    \/ (parsed_token.upos = "PRON" /\ parsed_token.lemma = "vy")
    \/ (parsed_token.upos = "DET" /\ parsed_token.lemma = "vash")
    \/ (parsed_token.upos = "VERB"
        /\ feats_get_is(parsed_token.feats, "Number", "Plur"))

check_token_for_v(parsed_token) ==
    \/ (parsed_token.upos = "PRON" /\ parsed_token.lemma = "vy")
    \/ (parsed_token.upos = "DET" /\ parsed_token.lemma = "vash")
    \/ (parsed_token.upos = "VERB"
        /\ feats_get_is(parsed_token.feats, "Number", "Plur")
        /\ feats_get_is(parsed_token.feats, "Person", "2"))

check_token_for_t(parsed_token) ==
    \/ (parsed_token.upos = "PRON" /\ parsed_token.lemma = "ty")
    \/ (parsed_token.upos = "DET" /\ parsed_token.lemma = "tvoj")
    \/ (parsed_token.upos = "VERB"
        /\ feats_get_is(parsed_token.feats, "Number", "Sing")
        /\ feats_get_is(parsed_token.feats, "Person", "2"))

\* variant: the scan stops at the first token that sets a flag
RECURSIVE tokens_met_until_hit(_, _)
tokens_met_until_hit(conll_token_list, n) ==
    IF n = 0 THEN [v |-> FALSE, t |-> FALSE]
    ELSE LET before == tokens_met_until_hit(conll_token_list, n - 1)
             parsed_token == conll_token_list[n]
         IN IF before.v \/ before.t THEN before
            ELSE [v |-> check_token_for_v(parsed_token),
                  t |-> check_token_for_t(parsed_token)]

\* the loop of _detect_t_v_from_conll: the two flags after the first n tokens
RECURSIVE tokens_met(_, _)
tokens_met(conll_token_list, n) ==
    IF n = 0 THEN [v |-> FALSE, t |-> FALSE]
    ELSE LET before == tokens_met(conll_token_list, n - 1)
             parsed_token == conll_token_list[n]
         IN [v |-> before.v \/ check_token_for_v(parsed_token),
             t |-> before.t \/ check_token_for_t(parsed_token)]

\* variant: a sentence with both flags set is labelled T
detect_t_v_from_conll_t_wins(conll_token_list) ==
    LET met == tokens_met(conll_token_list, Len(conll_token_list))
    IN <<met.t, met.v /\ ~met.t>>

detect_t_v_from_conll(conll_token_list) ==
    LET met == tokens_met(conll_token_list, Len(conll_token_list))
        t_sentence_found == met.t /\ ~met.v
        v_sentence_found == met.v /\ ~met.t
    IN <<t_sentence_found, v_sentence_found>>

----------------------------------------------------------------------------
(* Files *)

NoFile == [exists |-> FALSE]
TextFile(chars) == [exists |-> TRUE, text |-> chars]
ConllFile(rows) == [exists |-> TRUE, conll |-> rows]

en_path == <<"en">>
ru_path == <<"ru">>
conll_path == <<"ru.conll">>

\* source_filename + '.tv'
tv_filename(source_filename) == source_filename \o <<".tv">>

subcorpus_ru_path == <<"yandex_subcorpus_ru.txt">>
subcorpus_en_path == <<"yandex_subcorpus_en.txt">>

AllPaths ==
    {en_path, ru_path, conll_path, tv_filename(en_path),
     subcorpus_ru_path, subcorpus_en_path}

NoFiles == [p \in AllPaths |-> NoFile]

\* `if filename:` holds of a path that is neither None nor the empty string
truthy(filename) == filename.some /\ filename.val # <<>>

----------------------------------------------------------------------------
(* The summary both detectors print after a batch *)

sum_of(t_v_list, k) == Cardinality({i \in 1..Len(t_v_list) : t_v_list[i][k]})

\* variant: the neutral count leaves the V sentences in
summary_neutral_with_v(t_v_list) ==
    LET t_sentences_num == sum_of(t_v_list, 1)
        v_sentences_num == sum_of(t_v_list, 2)
    IN [kind |-> "summary",
        neutral |-> Len(t_v_list) - t_sentences_num,
        v |-> v_sentences_num,
        t |-> t_sentences_num]

summary(t_v_list) ==
    LET t_sentences_num == sum_of(t_v_list, 1)
        v_sentences_num == sum_of(t_v_list, 2)
    IN [kind |-> "summary",
        neutral |-> Len(t_v_list) - v_sentences_num - t_sentences_num,
        v |-> v_sentences_num,
        t |-> t_sentences_num]

\* what a call did: its result, its prints, the sentences it classified
Outcome(r, printed, n) == [ret |-> r, stdout |-> printed, classified |-> n]

\* variant: the test of lines inverted
no_source_given_lines_inverted(lines, filename) == ~filename.some /\ lines.some

\* `if filename is None and lines is None: raise RuntimeError`
no_source_given(lines, filename) == ~filename.some /\ ~lines.some

----------------------------------------------------------------------------
(* SimpleTVDetector.detect_t_v_labels *)

\* variant: empty lines are skipped
RECURSIVE simple_t_v_list_skipping_empty(_)
simple_t_v_list_skipping_empty(lines) ==
    IF lines = <<>> THEN <<>>
    ELSE IF Head(lines) = <<>> THEN simple_t_v_list_skipping_empty(Tail(lines))
    ELSE <<token_based_t_v_labels_detection(Head(lines))>>
            \o simple_t_v_list_skipping_empty(Tail(lines))

\* `for line in lines: t_v_list.append(...)`
simple_t_v_list(lines) ==
    [i \in 1..Len(lines) |-> token_based_t_v_labels_detection(lines[i])]

SimpleTVDetector_detect_t_v_labels(lines, filename, fsys) ==
    IF no_source_given(lines, filename)
    THEN Outcome(Raise("RuntimeError"), <<>>, 0)
    ELSE IF truthy(filename) /\ ~fsys[filename.val].exists
    THEN Outcome(Raise("FileNotFoundError"), <<>>, 0)
    ELSE LET read == IF truthy(filename)
                     THEN Some(splitlines(fsys[filename.val].text))
                     ELSE lines
         IN IF ~read.some
            THEN Outcome(Raise("TypeError"), <<>>, 0)
            ELSE LET t_v_list == simple_t_v_list(read.val)
                 IN Outcome(ReturnLabels(t_v_list), <<summary(t_v_list)>>, Len(t_v_list))

----------------------------------------------------------------------------
(* ConllTVDetector.detect_t_v_labels *)

TokenRow(token) == [kind |-> "token", token |-> token]
BlankRow == [kind |-> "blank"]
BadRow == [kind |-> "bad"]

RECURSIVE sentences_from(_, _, _)
sentences_from(rows, cur, out) ==
    IF rows = <<>> THEN (IF cur = <<>> THEN out ELSE Append(out, cur))
    ELSE IF Head(rows).kind = "blank"
         THEN sentences_from(Tail(rows), <<>>, IF cur = <<>> THEN out ELSE Append(out, cur))
         ELSE sentences_from(Tail(rows), Append(cur, Head(rows)), out)

\* the sentence blocks of a CoNLL-U text: the maximal runs of rows between blank rows
parse_sentences(rows) == sentences_from(rows, <<>>, <<>>)

\* a block the parser rejects with ParseException
malformed(block) == \E i \in 1..Len(block) : block[i].kind = "bad"

token_list(block) == [i \in 1..Len(block) |-> block[i].token]

\* the blocks read before the first malformed one (all of them when none is)
well_formed_prefix(blocks) ==
    Cardinality({i \in 1..Len(blocks) : \A j \in 1..i : ~malformed(blocks[j])})

conll_t_v_list(blocks) ==
    [i \in 1..Len(blocks) |-> detect_t_v_from_conll(token_list(blocks[i]))]

\* variant: on a parse error the labels found so far are kept and reported
conll_file_outcome_salvaging(rows) ==
    LET blocks == parse_sentences(rows)
        good == well_formed_prefix(blocks)
        t_v_list == conll_t_v_list(SubSeq(blocks, 1, good))
    IN Outcome(ReturnLabels(t_v_list), <<summary(t_v_list)>>, good)

\* `for tokenlist in conll_parse_incr(data_file)`: sentences are parsed one by one
conll_file_outcome(rows) ==
    LET blocks == parse_sentences(rows)
        good == well_formed_prefix(blocks)
    IN IF good < Len(blocks)
       THEN Outcome(Raise("ParseException"), <<>>, good)
       ELSE LET t_v_list == conll_t_v_list(blocks)
            IN Outcome(ReturnLabels(t_v_list), <<summary(t_v_list)>>, Len(t_v_list))

\* `for line in lines: for tokenlist in conll_parse(line)`: a line is parsed whole
RECURSIVE conll_lines_labels(_, _)
conll_lines_labels(lines, acc) ==
    IF lines = <<>> THEN [ok |-> TRUE, t_v_list |-> acc]
    ELSE LET blocks == parse_sentences(Head(lines))
         IN IF well_formed_prefix(blocks) < Len(blocks)
            THEN [ok |-> FALSE, t_v_list |-> acc]
            ELSE conll_lines_labels(Tail(lines), acc \o conll_t_v_list(blocks))

conll_lines_outcome(lines) ==
    LET done == conll_lines_labels(lines, <<>>)
    IN IF ~done.ok
       THEN Outcome(Raise("ParseException"), <<>>, Len(done.t_v_list))
       ELSE Outcome(ReturnLabels(done.t_v_list), <<summary(done.t_v_list)>>,
                    Len(done.t_v_list))

ConllTVDetector_detect_t_v_labels(lines, filename, fsys) ==
    IF no_source_given(lines, filename)
    THEN Outcome(Raise("RuntimeError"), <<>>, 0)
    ELSE IF truthy(filename)
    THEN IF ~fsys[filename.val].exists
         THEN Outcome(Raise("FileNotFoundError"), <<>>, 0)
         ELSE conll_file_outcome(fsys[filename.val].conll)
    ELSE IF ~lines.some
         THEN Outcome(Raise("TypeError"), <<>>, 0)
         ELSE conll_lines_outcome(lines.val)

\* self.detect_t_v_labels of the detector at hand
detect_t_v_labels(detector, lines, filename, fsys) ==
    IF detector = "SimpleTVDetector"
    THEN SimpleTVDetector_detect_t_v_labels(lines, filename, fsys)
    ELSE ConllTVDetector_detect_t_v_labels(lines, filename, fsys)

----------------------------------------------------------------------------
(* TVDetector.mark_tv_sentences *)

SPECIAL_T_TOKEN == <<"<", "T_lat", ">">>
SPECIAL_V_TOKEN == <<"<", "V_lat", ">">>

\* variant: every element of a is paired, with the neutral label past the end of b
zip_all_of_first(a, b) ==
    [i \in 1..Len(a) |-> <<a[i], IF i <= Len(b) THEN b[i] ELSE <<FALSE, FALSE>> >>]

\* zip(a, b): pairs up to the shorter of the two
zip(a, b) == [i \in 1..Min(Len(a), Len(b)) |-> <<a[i], b[i]>>]

\* variant: no space between the marker and the line
labeled_line_no_space(source_line, t_found, v_found) ==
    IF t_found THEN SPECIAL_T_TOKEN \o source_line
    ELSE IF v_found THEN SPECIAL_V_TOKEN \o source_line
    ELSE source_line

\* the body of the loop: the line appended for one (source_line, (t_found, v_found))
labeled_line(source_line, t_found, v_found) ==
    IF t_found THEN SPECIAL_T_TOKEN \o <<" ">> \o source_line
    ELSE IF v_found THEN SPECIAL_V_TOKEN \o <<" ">> \o source_line
    ELSE source_line

labeled_source_sentences(en_file, t_v_detected) ==
    LET pairs == zip(en_file, t_v_detected)
    IN [i \in 1..Len(pairs) |->
           labeled_line(pairs[i][1], pairs[i][2][1], pairs[i][2][2])]

\* the outcome of the call and the file system it leaves
mark_tv_sentences(detector, source_filename, target_filename, fsys) ==
    IF ~fsys[source_filename].exists
    THEN [out |-> Outcome(Raise("FileNotFoundError"), <<>>, 0), fs |-> fsys]
    ELSE LET detected == detect_t_v_labels(detector, None, Some(target_filename), fsys)
         IN IF detected.ret.kind = "raise"
            THEN [out |-> detected, fs |-> fsys]
            ELSE LET labeled == labeled_source_sentences(
                                    file_lines(fsys[source_filename].text),
                                    detected.ret.labels)
                     tv_source_filename == tv_filename(source_filename)
                 IN [out |-> Outcome(ReturnPath(tv_source_filename),
                                     detected.stdout \o
                                       <<[kind |-> "writing", file |-> tv_source_filename]>>,
                                     detected.classified),
                     fs |-> [fsys EXCEPT ![tv_source_filename] =
                                TextFile(Flatten(labeled))]]

----------------------------------------------------------------------------
(* create_tv_subcorpus *)

V_LIMIT == 22000
N_LIMIT == 100000

\* `n_sentences_num += n_found`: a bool added to an int
as_int(flag) == IF flag THEN 1 ELSE 0

\* the loop of create_tv_subcorpus: the kept lines and the counters after the
\* first n elements of zip(t_v_found, zip(ru_file, en_file))
RECURSIVE subcorpus_loop(_, _)
subcorpus_loop(pairs, n) ==
    IF n = 0
    THEN [ru_sentences |-> <<>>, en_sentences |-> <<>>,
          n_sentences_num |-> 0, v_sentences_num |-> 0, t_sentences_num |-> 0]
    ELSE LET before == subcorpus_loop(pairs, n - 1)
             t_found == pairs[n][1][1]
             v_found == pairs[n][1][2]
             ru_line == pairs[n][2][1]
             en_line == pairs[n][2][2]
             n_found == ~t_found /\ ~v_found
             counted ==
                 [before EXCEPT !.n_sentences_num = @ + as_int(n_found),
                                !.v_sentences_num = @ + as_int(v_found),
                                !.t_sentences_num = @ + as_int(t_found)]
         IN IF ~t_found /\ Len(ru_line) > 100 THEN before
            ELSE IF \/ (v_found /\ counted.v_sentences_num > V_LIMIT)
                    \/ (n_found /\ counted.n_sentences_num > N_LIMIT)
                 THEN counted
            ELSE [counted EXCEPT !.ru_sentences = Append(@, ru_line),
                                 !.en_sentences = Append(@, en_line)]

\* the outcome of the call and the file system it leaves; ru_file and en_file
\* are both opened on source_en_filepath
create_tv_subcorpus(source_ru_filepath, source_en_filepath, target_ru_filepath, target_en_filepath, fsys) ==
    LET detected ==
            SimpleTVDetector_detect_t_v_labels(None, Some(source_ru_filepath), fsys)
    IN IF detected.ret.kind = "raise"
       THEN [out |-> detected, fs |-> fsys]
       ELSE IF ~fsys[source_en_filepath].exists
       THEN [out |-> Outcome(Raise("FileNotFoundError"), detected.stdout,
                             detected.classified),
             fs |-> fsys]
       ELSE LET ru_file == file_lines(fsys[source_en_filepath].text)
                en_file == file_lines(fsys[source_en_filepath].text)
                pairs == zip(detected.ret.labels, zip(ru_file, en_file))
                kept == subcorpus_loop(pairs, Len(pairs))
            IN [out |-> Outcome(ReturnNone, detected.stdout, detected.classified),
                fs |-> [fsys EXCEPT
                          ![target_ru_filepath] = TextFile(Flatten(kept.ru_sentences)),
                          ![target_en_filepath] = TextFile(Flatten(kept.en_sentences))]]

----------------------------------------------------------------------------
(* Inputs *)

ty == <<"t", "y">>
vy == <<"v", "y">>
tvoj == <<"t", "v", "o", "j">>
Vash == <<"V", "a", "sh">>
stol == <<"s", "t", "o", "l">>
ya_vizhu == <<"ya", " ", "v", "i", "zh", "u", " ">>

\* sentences built from up to MaxPieces words and whitespace runs
Pieces == {ty, vy, tvoj, Vash, stol, <<" ">>, <<"\t">>}
GeneratedLines == {Flatten(q) : q \in SeqsUpTo(Pieces, MaxPieces)}

ExampleCorpus ==
    << ya_vizhu \o <<"t", "e", "b", "ya">>,
       ya_vizhu \o <<"v", "a", "s">>,
       ya_vizhu \o stol >>

ExampleLines == {ty \o <<" ">> \o ty \o <<" ">> \o ty} \cup Range(ExampleCorpus)

Lines == GeneratedLines \cup ExampleLines

\* the sentences of batches and of text files
BatchLines == {ty, Vash, ty \o <<" ">> \o vy, <<>>}

LinesArgs ==
    {None} \cup {Some(l) : l \in SeqsUpTo(BatchLines, MaxBatch) \cup {ExampleCorpus}}

\* a text of the given lines, the last one with or without its line end
join_lines(ls, final_newline) ==
    Flatten([i \in 1..Len(ls) |->
                IF i < Len(ls) \/ final_newline THEN Append(ls[i], "\n") ELSE ls[i]])

TextsOf(lineset) ==
    {join_lines(ls, nl) : ls \in SeqsUpTo(lineset, MaxFileLines), nl \in BOOLEAN}

TargetTexts == TextsOf(BatchLines)
SourceTexts == TextsOf({<<"a_lat">>, <<"b_lat">>})

\* a line of 100 characters: 101 with its line end
LongLine == [i \in 1..100 |-> "a_lat"]
EnglishTexts == TextsOf({<<"a_lat">>, <<"b_lat">>, LongLine})

\* annotated tokens
FeatItems == ({"Number"} \X {"Sing", "Plur"}) \cup ({"Person"} \X {"1", "2", "3"})
Feats ==
    {f \in SUBSET FeatItems : \A a, b \in f : a[1] = b[1] => a = b}
Tokens ==
    [upos : {"PRON", "DET", "VERB", "NOUN"},
     lemma : {"vy", "vash", "ty", "tvoj", "idti"},
     feats : Feats]

Token(upos, lemma, feats) == [upos |-> upos, lemma |-> lemma, feats |-> feats]
NoFeats == {}
NumberPerson(number, person) == {<<"Number", number>>, <<"Person", person>>}

pron_vy == Token("PRON", "vy", NoFeats)
pron_ty == Token("PRON", "ty", NoFeats)
det_vash == Token("DET", "vash", NoFeats)
det_tvoj == Token("DET", "tvoj", NoFeats)
verb_sing_2 == Token("VERB", "idti", NumberPerson("Sing", "2"))
verb_plur_2 == Token("VERB", "idti", NumberPerson("Plur", "2"))
verb_sing_1 == Token("VERB", "idti", NumberPerson("Sing", "1"))
noun == Token("NOUN", "idti", NoFeats)

SampleTokens ==
    {pron_vy, pron_ty, det_vash, det_tvoj, verb_sing_2, verb_plur_2, verb_sing_1, noun}
Sentences == SeqsUpTo(SampleTokens, MaxSentTokens)

\* CoNLL-U texts: the rows of a file, and the strings of an in-memory batch
SampleRows == {TokenRow(pron_vy), TokenRow(verb_sing_2), BlankRow, BadRow}
ConllTexts == SeqsUpTo(SampleRows, MaxRows)

ConllStrings ==
    { <<TokenRow(verb_sing_2)>>,
      <<TokenRow(pron_vy), BlankRow, TokenRow(pron_vy), TokenRow(verb_sing_2)>>,
      <<>>,
      <<BadRow>> }
ConllLinesArgs == {None} \cup {Some(l) : l \in SeqsUpTo(ConllStrings, MaxBatch)}

\* None, the empty string, or the path of the file
FilenameArgs(path) == {None, Some(<<>>), Some(path)}

----------------------------------------------------------------------------
(* The state machine: one action per operation *)

\* no operation has been called, or the caller has taken the last result
Idle == [op |-> "idle"]

Init ==
    /\ russian_T_words = get_russian_T_V_words[1]
    /\ russian_V_words = get_russian_T_V_words[2]
    /\ fs = NoFiles
    /\ call = Idle
    /\ ret = ReturnNone
    /\ stdout = <<>>
    /\ classified = 0

\* an operation is called when no call is in progress, and runs to its end
Finish(c, out, fsys) ==
    /\ call' = c
    /\ ret' = out.ret
    /\ stdout' = out.stdout
    /\ classified' = out.classified
    /\ fs' = fsys
    /\ UNCHANGED <<russian_T_words, russian_V_words>>

ClassifyLine ==
    /\ call = Idle
    /\ \E line \in Lines :
          Finish([op |-> "_token_based_t_v_labels_detection", line |-> line],
                 Outcome(ReturnLabel(token_based_t_v_labels_detection(line)), <<>>, 1),
                 NoFiles)

CheckTokenForV ==
    /\ call = Idle
    /\ \E token \in Tokens :
          Finish([op |-> "_check_token_for_v", token |-> token],
                 Outcome(ReturnFlag(check_token_for_v(token)), <<>>, 0),
                 NoFiles)

CheckTokenForT ==
    /\ call = Idle
    /\ \E token \in Tokens :
          Finish([op |-> "_check_token_for_t", token |-> token],
                 Outcome(ReturnFlag(check_token_for_t(token)), <<>>, 0),
                 NoFiles)

ClassifyTokenList ==
    /\ call = Idle
    /\ \E conll_token_list \in Sentences :
          Finish([op |-> "_detect_t_v_from_conll", tokens |-> conll_token_list],
                 Outcome(ReturnLabel(detect_t_v_from_conll(conll_token_list)), <<>>, 1),
                 NoFiles)

TextFiles(texts) == {NoFile} \cup {TextFile(t) : t \in texts}
ConllFiles == {NoFile} \cup {ConllFile(r) : r \in ConllTexts}

\* the file system of a call that may name the file at path: the file is there
\* only when the call names it
FsWith(filename, path, file) ==
    IF truthy(filename) THEN [NoFiles EXCEPT ![path] = file] ELSE NoFiles

SimpleDetect ==
    /\ call = Idle
    /\ \E lines \in LinesArgs, filename \in FilenameArgs(ru_path),
          file \in TextFiles(TargetTexts) :
          /\ ~truthy(filename) => file = NoFile
          /\ LET fsys == FsWith(filename, ru_path, file)
             IN Finish([op |-> "detect_t_v_labels", detector |-> "SimpleTVDetector",
                        lines |-> lines, filename |-> filename],
                       SimpleTVDetector_detect_t_v_labels(lines, filename, fsys),
                       fsys)

ConllDetect ==
    /\ call = Idle
    /\ \E lines \in ConllLinesArgs, filename \in FilenameArgs(conll_path),
          file \in ConllFiles :
          /\ ~truthy(filename) => file = NoFile
          /\ LET fsys == FsWith(filename, conll_path, file)
             IN Finish([op |-> "detect_t_v_labels", detector |-> "ConllTVDetector",
                        lines |-> lines, filename |-> filename],
                       ConllTVDetector_detect_t_v_labels(lines, filename, fsys),
                       fsys)

\* the source file is en; the target is ru for the token-based detector and
\* ru.conll for the annotation-based one
MarkTvSentences ==
    /\ call = Idle
    /\ \E detector \in {"SimpleTVDetector", "ConllTVDetector"},
          source \in TextFiles(SourceTexts),
          target \in TextFiles(TargetTexts) \cup ConllFiles :
          LET target_filename ==
                  IF detector = "SimpleTVDetector" THEN ru_path ELSE conll_path
          IN /\ target \in (IF detector = "SimpleTVDetector"
                            THEN TextFiles(TargetTexts) ELSE ConllFiles)
             /\ LET fsys == [NoFiles EXCEPT ![en_path] = source,
                                            ![target_filename] = target]
                    done == mark_tv_sentences(detector, en_path, target_filename, fsys)
                IN Finish([op |-> "mark_tv_sentences", detector |-> detector,
                           source_filename |-> en_path,
                           target_filename |-> target_filename,
                           before |-> fsys],
                          done.out, done.fs)

\* the Russian source is ru, the English source is en
CreateTvSubcorpus ==
    /\ call = Idle
    /\ \E ru \in TextFiles(TargetTexts), en \in TextFiles(EnglishTexts) :
          LET fsys == [NoFiles EXCEPT ![ru_path] = ru, ![en_path] = en]
              done == create_tv_subcorpus(ru_path, en_path,
                                          subcorpus_ru_path, subcorpus_en_path, fsys)
          IN Finish([op |-> "create_tv_subcorpus",
                     source_ru_filepath |-> ru_path,
                     source_en_filepath |-> en_path,
                     target_ru_filepath |-> subcorpus_ru_path,
                     target_en_filepath |-> subcorpus_en_path,
                     before |-> fsys],
                    done.out, done.fs)

\* the caller takes the result; the detector (its lexicon) stays as constructed
TakeResult ==
    /\ call # Idle
    /\ call' = Idle
    /\ ret' = ReturnNone
    /\ stdout' = <<>>
    /\ classified' = 0
    /\ fs' = NoFiles
    /\ UNCHANGED <<russian_T_words, russian_V_words>>

Next ==
    \/ ClassifyLine
    \/ CheckTokenForV
    \/ CheckTokenForT
    \/ ClassifyTokenList
    \/ SimpleDetect
    \/ ConllDetect
    \/ MarkTvSentences
    \/ CreateTvSubcorpus
    \/ TakeResult

Spec == Init /\ [][Next]_vars

----------------------------------------------------------------------------
(* Properties *)

SingleLabelOps == {"_token_based_t_v_labels_detection", "_detect_t_v_from_conll"}

IsBatch == call.op = "detect_t_v_labels"
IsMark == call.op = "mark_tv_sentences"
Returned == ret.kind = "return"

\* the labels the last call returned: the one label of a single classification,
\* or the elements of the label sequence of a batch
ReturnedLabels ==
    IF ~Returned THEN {}
    ELSE IF call.op \in SingleLabelOps THEN {ret.label}
    ELSE IF IsBatch THEN Range(ret.labels)
    ELSE {}

\* the disambiguation rule of the specification
Resolve(t_hit, v_hit) == <<t_hit /\ ~v_hit, v_hit /\ ~t_hit>>

\* C1: no label returned by either detector, for a single sentence or for an
\* element of a batch, is (true, true).
C1_NeverBothLabels == \A label \in ReturnedLabels : ~(label[1] /\ label[2])

\* a batch of the token-based detector holding a sentence with both a T-form
\* and a V-form has been classified
C1_Witness ==
    /\ IsBatch /\ call.detector = "SimpleTVDetector"
    /\ call.lines = Some(<<ty \o <<" ">> \o vy, ty>>)
    /\ ~call.filename.some
    /\ ret = ReturnLabels(<< <<FALSE, FALSE>>, <<TRUE, FALSE>> >>)

\* the hit flags of a raw sentence and of an annotated sentence
SimpleHits(line) ==
    LET tokens == Range(split(strip(line)))
    IN [t |-> \E token \in tokens : token \in russian_T_words,
        v |-> \E token \in tokens : token \in russian_V_words]

ConllHits(tokens) ==
    [t |-> \E i \in 1..Len(tokens) : check_token_for_t(tokens[i]),
     v |-> \E i \in 1..Len(tokens) : check_token_for_v(tokens[i])]

LastHits ==
    IF call.op = "_token_based_t_v_labels_detection" THEN SimpleHits(call.line)
    ELSE ConllHits(call.tokens)

\* C2: both detectors turn the hit flags into the label by the same rule,
\* is_t = t_hit and not v_hit, is_v = v_hit and not t_hit; both flags set and
\* no flag set give the neutral label.
C2_SameRule ==
    (call.op \in SingleLabelOps /\ Returned) =>
        /\ ret.label = Resolve(LastHits.t, LastHits.v)
        /\ (LastHits.t = LastHits.v) => ret.label = <<FALSE, FALSE>>

\* the annotation-based detector has labelled a sentence with both flags set
C2_Witness ==
    /\ call.op = "_detect_t_v_from_conll"
    /\ LastHits.t /\ LastHits.v
    /\ ret = ReturnLabel(<<FALSE, FALSE>>)

\* C3: a batch call given both a line list and the path of an existing file
\* raises RuntimeError (and so returns no labels).
C3_BothSourcesRaise ==
    (/\ IsBatch
     /\ call.lines.some
     /\ truthy(call.filename)
     /\ fs[call.filename.val].exists)
        => ret = Raise("RuntimeError")

\* C4: a batch call given neither a line list nor a file path raises
\* RuntimeError before any sentence is classified and before any summary is
\* printed.
C4_NoSourceRaises ==
    (IsBatch /\ ~call.lines.some /\ ~call.filename.some) =>
        /\ ret = Raise("RuntimeError")
        /\ classified = 0
        /\ stdout = <<>>

\* the annotation-based detector has been called with neither source
C4_Witness ==
    /\ IsBatch /\ call.detector = "ConllTVDetector"
    /\ ~call.lines.some /\ ~call.filename.some
    /\ ret.kind = "raise"

\* the k-th smallest element of a set of positions
KthOf(P, k) == CHOOSE p \in P : Cardinality({q \in P : q < p}) = k - 1

\* the lines of a text: what lies between its line ends
LineEnds(text) == {i \in 1..Len(text) : text[i] = "\n"}

TextLineCount(text) ==
    Cardinality(LineEnds(text))
        + (IF text # <<>> /\ text[Len(text)] # "\n" THEN 1 ELSE 0)

TextLine(text, k) ==
    LET ends == LineEnds(text)
        from == IF k = 1 THEN 1 ELSE KthOf(ends, k - 1) + 1
        to == IF k <= Cardinality(ends) THEN KthOf(ends, k) - 1 ELSE Len(text)
    IN SubSeq(text, from, to)

TextSentences(text) == [k \in 1..TextLineCount(text) |-> TextLine(text, k)]

\* the sentences of a CoNLL-U text: its maximal runs of rows that are not blank
SentenceStarts(rows) ==
    {i \in 1..Len(rows) :
        rows[i].kind # "blank" /\ (i = 1 \/ rows[i - 1].kind = "blank")}

SentenceEnd(rows, i) ==
    CHOOSE j \in i..Len(rows) :
        /\ \A m \in i..j : rows[m].kind # "blank"
        /\ (j = Len(rows) \/ rows[j + 1].kind = "blank")

ConllSentences(rows) ==
    [k \in 1..Cardinality(SentenceStarts(rows)) |->
        LET i == KthOf(SentenceStarts(rows), k)
        IN [m \in 1..(SentenceEnd(rows, i) - i + 1) |-> rows[i + m - 1].token]]

\* the sentences given to the last batch call, which named one source
InputSentences ==
    IF call.detector = "SimpleTVDetector"
    THEN IF call.lines.some THEN call.lines.val
         ELSE TextSentences(fs[call.filename.val].text)
    ELSE IF call.lines.some
         THEN Flatten([e \in 1..Len(call.lines.val) |->
                          ConllSentences(call.lines.val[e])])
         ELSE ConllSentences(fs[call.filename.val].conll)

SingleLabel(detector, sentence) ==
    IF detector = "SimpleTVDetector"
    THEN token_based_t_v_labels_detection(sentence)
    ELSE detect_t_v_from_conll(sentence)

\* C5: a successful batch call that names one source (a line list or a file)
\* returns as many labels as the source has sentences, and the i-th label is the
\* label of the i-th sentence classified alone.
C5_BatchIsPointwise ==
    (IsBatch /\ Returned /\ (call.lines.some # call.filename.some)) =>
        /\ Len(ret.labels) = Len(InputSentences)
        /\ \A i \in 1..Len(InputSentences) :
              ret.labels[i] = SingleLabel(call.detector, InputSentences[i])

\* the annotation-based detector has classified an in-memory batch of two
\* strings, the first holding two sentences
C5_Witness ==
    /\ IsBatch /\ call.detector = "ConllTVDetector"
    /\ call.lines.some /\ ~call.filename.some
    /\ Len(call.lines.val) = 2
    /\ ret = ReturnLabels(<< <<FALSE, TRUE>>, <<FALSE, FALSE>>, <<TRUE, FALSE>> >>)

\* the distinct whitespace-separated tokens of a sentence: its maximal runs of
\* characters that are not whitespace
WordRuns(line) ==
    {SubSeq(line, r[1], r[2]) :
        r \in {p \in (1..Len(line)) \X (1..Len(line)) :
                  /\ p[1] <= p[2]
                  /\ \A m \in p[1]..p[2] : line[m] \notin Whitespace
                  /\ (p[1] = 1 \/ line[p[1] - 1] \in Whitespace)
                  /\ (p[2] = Len(line) \/ line[p[2] + 1] \in Whitespace)}}

Capitalized(word) == [word EXCEPT ![1] = upper(word[1])]

EntryOrCapitalized(token, entries) ==
    \E entry \in entries : token = entry \/ token = Capitalized(entry)

\* C6: the label of the token-based detector is a function of the set of distinct
\* whitespace-separated tokens: t_hit iff some token is a T entry or its
\* capitalized variant, v_hit iff some token is a V entry or its capitalized
\* variant.
C6_TokenSetDecides ==
    (call.op = "_token_based_t_v_labels_detection") =>
        LET tokens == WordRuns(call.line)
            t_hit == \E token \in tokens : EntryOrCapitalized(token, russian_T_tokens)
            v_hit == \E token \in tokens : EntryOrCapitalized(token, russian_V_tokens)
        IN /\ ret = ReturnLabel(Resolve(t_hit, v_hit))
           /\ (tokens = {tvoj}) => ret.label = <<TRUE, FALSE>>
           /\ (tokens = {Vash}) => ret.label = <<FALSE, TRUE>>
           /\ ({ty, vy} \subseteq tokens) => ret.label = <<FALSE, FALSE>>

\* a sentence that repeats one T-form three times has been labelled T
C6_Witness ==
    /\ call.op = "_token_based_t_v_labels_detection"
    /\ call.line = ty \o <<" ">> \o ty \o <<" ">> \o ty
    /\ ret = ReturnLabel(<<TRUE, FALSE>>)

\* the value of a feature of a token: a set of one value, or empty when the
\* token lacks the feature
FeatureOf(token, name) == {item[2] : item \in {i \in token.feats : i[1] = name}}

\* a verb with both features present and the given values
VerbWith(token, number, person) ==
    /\ token.upos = "VERB"
    /\ FeatureOf(token, "Number") = {number}
    /\ FeatureOf(token, "Person") = {person}

VSpecific(token) ==
    \/ <<token.upos, token.lemma>> \in {<<"PRON", "vy">>, <<"DET", "vash">>}
    \/ VerbWith(token, "Plur", "2")

TSpecific(token) ==
    \/ <<token.upos, token.lemma>> \in {<<"PRON", "ty">>, <<"DET", "tvoj">>}
    \/ VerbWith(token, "Sing", "2")

\* a verb that is not of person 2, or lacks its Number or its Person
VerbOutsideSecondPerson(token) ==
    /\ token.upos = "VERB"
    /\ \/ FeatureOf(token, "Number") = {}
       \/ FeatureOf(token, "Person") = {}
       \/ FeatureOf(token, "Person") # {"2"}

C8_EveryTokenScanned ==
    (call.op = "_detect_t_v_from_conll") =>
        LET tokens == call.tokens
            some_t == \E i \in 1..Len(tokens) : check_token_for_t(tokens[i])
            some_v == \E i \in 1..Len(tokens) : check_token_for_v(tokens[i])
        IN /\ ret.label[1] = (some_t /\ ~some_v)
           /\ ret.label[2] = (some_v /\ ~some_t)
           /\ (\E i, j \in 1..Len(tokens) :
                  check_token_for_v(tokens[i]) /\ check_token_for_t(tokens[j]))
                 => ret = ReturnLabel(<<FALSE, FALSE>>)

\* the pronoun vy followed by a verb in the singular of person 2 has been labelled
C8_Witness ==
    /\ call.op = "_detect_t_v_from_conll"
    /\ call.tokens = <<pron_vy, verb_sing_2>>
    /\ ret = ReturnLabel(<<FALSE, FALSE>>)

\* in a marking call: the lines of the source file, the labels of the target
\* file, and the lines of the file written
SourceLines == file_lines(call.before[call.source_filename].text)

TargetOutcome ==
    detect_t_v_labels(call.detector, None, Some(call.target_filename), call.before)

WrittenLines == file_lines(fs[tv_filename(call.source_filename)].text)

Marker(label) ==
    IF label = <<TRUE, FALSE>> THEN SPECIAL_T_TOKEN \o <<" ">>
    ELSE IF label = <<FALSE, TRUE>> THEN SPECIAL_V_TOKEN \o <<" ">>
    ELSE <<>>

StartsWith(line, prefix) ==
    Len(line) >= Len(prefix) /\ SubSeq(line, 1, Len(prefix)) = prefix

\* C9: mark_tv_sentences writes to the source path plus '.tv', in order, one line
\* per pair of source line i and label i: '<T> ' plus the line for a T label,
\* '<V> ' plus the line for a V label, the line itself for a neutral label; no
\* line is given both markers.
C9_MarkedLines ==
    (IsMark /\ Returned) =>
        LET labels == TargetOutcome.ret.labels
        IN /\ ret.path = call.source_filename \o <<".tv">>
           /\ fs[ret.path].exists
           /\ \A p \in DOMAIN fs \ {ret.path} : fs[p] = call.before[p]
           /\ Len(WrittenLines) = Min(Len(SourceLines), Len(labels))
           /\ \A i \in 1..Len(WrittenLines) :
                 /\ WrittenLines[i] = Marker(labels[i]) \o SourceLines[i]
                 /\ Len(WrittenLines[i]) - Len(SourceLines[i]) \in {0, 4}
                 /\ ~StartsWith(WrittenLines[i],
                                SPECIAL_T_TOKEN \o <<" ">> \o SPECIAL_V_TOKEN)
                 /\ ~StartsWith(WrittenLines[i],
                                SPECIAL_V_TOKEN \o <<" ">> \o SPECIAL_T_TOKEN)

\* two source lines have been written, the first marked T and the second V
C9_Witness ==
    /\ IsMark /\ Returned
    /\ fs[tv_filename(en_path)] =
          TextFile(<<"<", "T_lat", ">", " ", "a_lat", "\n",
                     "<", "V_lat", ">", " ", "b_lat", "\n">>)

\* C10: when the source file and the labels of the target differ in length,
\* mark_tv_sentences raises nothing and writes min(source lines, labels) lines.
C10_SilentTruncation ==
    (/\ IsMark
     /\ call.before[call.source_filename].exists
     /\ TargetOutcome.ret.kind = "return"
     /\ TextLineCount(call.before[call.source_filename].text)
           # Len(TargetOutcome.ret.labels))
        => /\ Returned
           /\ TextLineCount(fs[tv_filename(call.source_filename)].text)
                 = Min(TextLineCount(call.before[call.source_filename].text),
                       Len(TargetOutcome.ret.labels))

\* a source of two lines has been marked with the one label of the target
C10_Witness ==
    /\ IsMark /\ Returned
    /\ Len(SourceLines) = 2
    /\ Len(TargetOutcome.ret.labels) = 1
    /\ Len(WrittenLines) = 1

\* the number of returned labels equal to the given one
LabelCount(label) == Cardinality({i \in 1..Len(ret.labels) : ret.labels[i] = label})

Summaries == {i \in 1..Len(stdout) : stdout[i].kind = "summary"}

\* C11: after a successful batch classification by either detector exactly one
\* summary has been printed; its T count is the number of labels (true, false),
\* its V count the number of labels (false, true), its neutral count the number
\* of labels (false, false); the counts are non-negative and sum to the number
\* of labels; the three-line corpus of the specification gives 1, 1 and 1.
C11_SummaryCounts ==
    (IsBatch /\ Returned) =>
        /\ Cardinality(Summaries) = 1
        /\ Len(stdout) = 1
        /\ stdout[1].t = LabelCount(<<TRUE, FALSE>>)
        /\ stdout[1].v = LabelCount(<<FALSE, TRUE>>)
        /\ stdout[1].neutral = LabelCount(<<FALSE, FALSE>>)
        /\ stdout[1].t >= 0 /\ stdout[1].v >= 0 /\ stdout[1].neutral >= 0
        /\ stdout[1].t + stdout[1].v + stdout[1].neutral = Len(ret.labels)
        /\ (/\ call.detector = "SimpleTVDetector"
            /\ call.lines = Some(ExampleCorpus)
            /\ ~truthy(call.filename))
              => /\ ret.labels = << <<TRUE, FALSE>>, <<FALSE, TRUE>>, <<FALSE, FALSE>> >>
                 /\ stdout[1] = [kind |-> "summary", neutral |-> 1, v |-> 1, t |-> 1]

\* the token-based detector has classified the three-line corpus and printed
\* its summary
C11_Witness ==
    /\ IsBatch /\ Returned
    /\ call.detector = "SimpleTVDetector"
    /\ call.lines = Some(ExampleCorpus)
    /\ ~call.filename.some
    /\ stdout = <<[kind |-> "summary", neutral |-> 1, v |-> 1, t |-> 1]>>

Errors == {"RuntimeError", "FileNotFoundError", "TypeError", "ParseException"}

HasBadRow(rows) == \E i \in 1..Len(rows) : rows[i].kind = "bad"

\* a batch call that meets an error: no source at all (usage), a named file
\* that is missing (file access), a row the parser rejects in the source read
\* (parse), or no line list to iterate
BatchError(detector, lines, filename, fsys) ==
    \/ ~lines.some /\ ~filename.some
    \/ truthy(filename) /\ ~fsys[filename.val].exists
    \/ ~truthy(filename) /\ ~lines.some
    \/ /\ detector = "ConllTVDetector"
       /\ \/ /\ truthy(filename)
             /\ fsys[filename.val].exists
             /\ HasBadRow(fsys[filename.val].conll)
          \/ /\ ~truthy(filename)
             /\ lines.some
             /\ \E e \in 1..Len(lines.val) : HasBadRow(lines.val[e])

\* the call raised: the caller gets the error and nothing else
OnlyErrorPropagates ==
    /\ ret.kind = "raise"
    /\ ret \in {Raise(e) : e \in Errors}
    /\ stdout = <<>>

\* C12: a batch that meets an error on some sentence raises the error to the
\* caller, returns no labels (not those of the sentences before it either) and
\* prints no summary; a mark_tv_sentences call built on such a batch raises the
\* same way and writes no '.tv' file.
C12_AllOrNothing ==
    /\ IsBatch =>
          /\ BatchError(call.detector, call.lines, call.filename, fs)
                => OnlyErrorPropagates
          /\ ~Returned => OnlyErrorPropagates
    /\ IsMark =>
          /\ BatchError(call.detector, None, Some(call.target_filename), call.before)
                => OnlyErrorPropagates
          /\ ~Returned =>
                /\ OnlyErrorPropagates
                /\ fs = call.before
                /\ ~fs[tv_filename(call.source_filename)].exists

\* marking with the annotation-based detector met a malformed second sentence
\* after the first had been classified
C12_Witness ==
    /\ IsMark /\ call.detector = "ConllTVDetector"
    /\ call.before[en_path].exists
    /\ call.before[conll_path] = ConllFile(<<TokenRow(pron_vy), BlankRow, BadRow>>)
    /\ classified = 1
    /\ ret = Raise("ParseException")
    /\ ~fs[tv_filename(en_path)].exists

\* C13: the T-lexicon and the V-lexicon of the constructed token-based detector,
\* each holding every entry and its first-letter-capitalized variant, have no
\* word-form in common, so no token of a sentence is in both.
C13_LexiconsDisjoint ==
    /\ \A entry \in russian_T_tokens :
          {entry, Capitalized(entry)} \subseteq russian_T_words
    /\ \A entry \in russian_V_tokens :
          {entry, Capitalized(entry)} \subseteq russian_V_words
    /\ russian_T_words \cap russian_V_words = {}
    /\ (call.op = "_token_based_t_v_labels_detection") =>
          \A token \in WordRuns(call.line) :
              ~(token \in russian_T_words /\ token \in russian_V_words)

\* a sentence holding a capitalized V-form and a T-form has been classified
C13_Witness ==
    /\ call.op = "_token_based_t_v_labels_detection"
    /\ WordRuns(call.line) = {Vash, tvoj}
    /\ Vash \in russian_V_words \ russian_T_words
    /\ tvoj \in russian_T_words \ russian_V_words
    /\ ret = ReturnLabel(<<FALSE, FALSE>>)

IsSubcorpus == call.op = "create_tv_subcorpus"

\* C14: create_tv_subcorpus writes a parallel sub-corpus: the two target files
\* have the same number of lines, and line i of the Russian target and line i
\* of the English target are the lines at one and the same index of the Russian
\* source (the file the labels were computed from) and of the English source.
C14_ParallelSubcorpus ==
    (IsSubcorpus /\ Returned) =>
        LET ru_source == file_lines(call.before[call.source_ru_filepath].text)
            en_source == file_lines(call.before[call.source_en_filepath].text)
            ru_target == file_lines(fs[call.target_ru_filepath].text)
            en_target == file_lines(fs[call.target_en_filepath].text)
        IN /\ Len(ru_target) = Len(en_target)
           /\ \A i \in 1..Len(ru_target) :
                 \E k \in 1..Min(Len(ru_source), Len(en_source)) :
                     /\ ru_target[i] = ru_source[k]
                     /\ en_target[i] = en_source[k]

====
